---- MODULE Spec2Model ----
(***************************************************************************)
(* Model of streamlit_app.py: the Mathematics Assessment Generator.        *)
(*                                                                         *)
(* Texts that the code inspects character by character (the completion,    *)
(* the extracted PDF text) are sequences of one-character strings, so      *)
(* that str.split, str.replace and str.strip are modelled by what they do. *)
(* Texts the code only tests for emptiness and passes along (the form      *)
(* fields, the grade label, file names, messages) are TLA+ strings.        *)
(***************************************************************************)
EXTENDS Naturals, Sequences, FiniteSets

VARIABLES
    PDF_READER_CLASS,    \* module global, lines 17-30: "pypdf", "PyPDF2" or None
    api_key,             \* module global, line 34: the credential or None
    grade,               \* st.selectbox value, line 219
    standards,           \* st.text_area value, line 226
    lessons,             \* st.text_area value, line 230
    section_content,     \* st.text_area value, line 235
    screen,              \* what the last script run showed below the form
    log,                 \* what the last script run sent to the logger
    getResponseCalls,    \* calls of get_response in the last script run
    gatewayCalls,        \* calls of client.messages.create in the last run
    passed,              \* the arguments the last get_response call received
    extraction,          \* what extract_pdf_content did in the last run
    reference_text,      \* get_response's local, lines 111-114
    prompt,              \* get_response's user_content, lines 117-196
    completion,          \* what the completion service answered
    text,                \* format_response's argument
    formatted_questions, \* format_response's local list, lines 89-102
    formatted,           \* format_response's return value
    raw,                 \* clean_extracted_text's argument
    cleaned,             \* clean_extracted_text's return value
    resolved             \* per grade label, the results get_reference_file gave

vars == << PDF_READER_CLASS, api_key, grade, standards, lessons,
           section_content, screen, log, getResponseCalls, gatewayCalls,
           passed, extraction, reference_text, prompt, completion,
           text, formatted_questions, formatted, raw, cleaned, resolved >>

appVars == << PDF_READER_CLASS, api_key, grade, standards, lessons,
              section_content, screen, log, getResponseCalls, gatewayCalls,
              passed, extraction, reference_text, prompt, completion >>

segmentVars == << text, formatted_questions, formatted >>

cleanVars == << raw, cleaned >>

(***************************************************************************)
(* Bounds of the model.                                                    *)
(***************************************************************************)
\* longest raw text handed to clean_extracted_text
MaxRawLen == 7

\* most pieces a completion text is put together from
MaxPieces == 4

\* most pages of a reference document
MaxPages == 2

(***************************************************************************)
(* Python values.                                                          *)
(***************************************************************************)
\* None where a str label or file name is expected
None == "None"

\* None where a text (a sequence of characters) is expected
NoneText == << "<None>" >>

\* a variable of a function that has not run
Pending == << "<pending>" >>

NL == "\n"

\* the characters str.strip() removes that the model's alphabets contain
Whitespace == { " ", NL, "\t" }

(***************************************************************************)
(* str methods, on sequences of characters.                                *)
(***************************************************************************)
\* s[i : i + len(p)] == p
OccursAt(s, p, i) ==
    /\ i >= 1
    /\ i + Len(p) - 1 <= Len(s)
    /\ SubSeq(s, i, i + Len(p) - 1) = p

RECURSIVE SplitFrom(_, _, _, _)
\* the fragments of s from position start on, the scan standing at i
SplitFrom(s, sep, i, start) ==
    IF i + Len(sep) - 1 > Len(s)
    THEN << SubSeq(s, start, Len(s)) >>
    ELSE IF OccursAt(s, sep, i)
         THEN << SubSeq(s, start, i - 1) >>
                  \o SplitFrom(s, sep, i + Len(sep), i + Len(sep))
         ELSE SplitFrom(s, sep, i + 1, start)

\* s.split(sep), sep non-empty: left to right, occurrences do not overlap
split(s, sep) == SplitFrom(s, sep, 1, 1)

RECURSIVE ReplaceFrom(_, _, _, _)
ReplaceFrom(s, old, new, i) ==
    IF i > Len(s)
    THEN << >>
    ELSE IF OccursAt(s, old, i)
         THEN new \o ReplaceFrom(s, old, new, i + Len(old))
         ELSE << s[i] >> \o ReplaceFrom(s, old, new, i + 1)

\* s.replace(old, new), old non-empty: one pass, left to right
replace(s, old, new) == ReplaceFrom(s, old, new, 1)

RECURSIVE lstrip(_)
lstrip(s) ==
    IF s # << >> /\ Head(s) \in Whitespace THEN lstrip(Tail(s)) ELSE s

RECURSIVE rstrip(_)
rstrip(s) ==
    IF s # << >> /\ s[Len(s)] \in Whitespace
    THEN rstrip(SubSeq(s, 1, Len(s) - 1))
    ELSE s

\* s.strip()
strip(s) == rstrip(lstrip(s))

RECURSIVE join(_, _)
\* sep.join(parts)
join(sep, parts) ==
    IF parts = << >>
    THEN << >>
    ELSE IF Len(parts) = 1
         THEN parts[1]
         ELSE parts[1] \o sep \o join(sep, Tail(parts))

\* the sequences over alphabet of length at most n
SeqsUpTo(alphabet, n) == UNION { [1..k -> alphabet] : k \in 0..n }

(***************************************************************************)
(* clean_extracted_text, lines 36-42.                                      *)
(***************************************************************************)
clean_extracted_text(t) ==
    IF t = << >>
    THEN << >>
    ELSE strip(replace(t, << NL, NL >>, << NL >>))

(***************************************************************************)
(* get_reference_file, lines 68-84.                                        *)
(***************************************************************************)
grade_mapping ==
    [ g \in { "Kindergarten", "Grade 1", "Grade 2", "Grade 3", "Grade 4",
              "Grade 5", "Grade 6", "Grade 7", "Grade 8", "Algebra 1",
              "Algebra 2", "Geometry" } |->
        CASE g \in { "Kindergarten", "Grade 1", "Grade 2", "Grade 3" }
                 -> "grade_3.pdf"
          [] g = "Grade 4" -> "grade_4.pdf"
          [] g = "Grade 5" -> "grade_5.pdf"
          [] g = "Grade 6" -> "grade_6.pdf"
          [] g = "Grade 7" -> "grade_7.pdf"
          [] g = "Grade 8" -> "grade_8.pdf"
          [] g \in { "Algebra 1", "Algebra 2", "Geometry" }
                 -> "algebra_1.pdf" ]

\* a lookup table that gives Kindergarten a document of its own
get_reference_file_own_document(g) ==
    IF g = "Kindergarten"
    THEN "kindergarten.pdf"
    ELSE IF g \in DOMAIN grade_mapping THEN grade_mapping[g] ELSE None

\* grade_mapping.get(grade)
get_reference_file(g) ==
    IF g \in DOMAIN grade_mapping THEN grade_mapping[g] ELSE None

(***************************************************************************)
(* format_response, lines 86-103.                                          *)
(***************************************************************************)
Question == << "Q", "u", "e", "s", "t", "i", "o", "n" >>

BR == << "<", "b", "r", ">" >>

\* the literal markup before "Question", lines 91-98, as one token
DivOpen == << "<div style=...>" >>

\* the literal markup after the question, lines 100-101, as one token
DivClose == << "</div>" >>

\* keeps the fragment before the first "Question"
questions_keep_preamble(t) == split(t, Question)

\* text.split('Question')[1:], line 88
questions(t) == Tail(split(t, Question))

\* the f-string of lines 91-101
formatted_q(q) ==
    DivOpen \o Question \o replace(q, << NL >>, BR) \o DivClose

\* the list built backwards
format_questions_reversed(t) ==
    [ i \in 1..Len(questions(t)) |->
        formatted_q(questions(t)[Len(questions(t)) + 1 - i]) ]

\* the list built by lines 89-102
format_questions(t) ==
    [ i \in 1..Len(questions(t)) |-> formatted_q(questions(t)[i]) ]

\* "".join(formatted_questions), line 103
format_response(t) == join(<< >>, format_questions(t))

(***************************************************************************)
(* What the user sees and what is logged.                                  *)
(***************************************************************************)
\* st.error / st.warning / st.success: a notice with its message
Notice(kind, msg) == [ kind |-> kind, msg |-> msg, body |-> << >> ]

\* st.markdown / st.text_area: an element showing a text
Shown(kind, body) == [ kind |-> kind, msg |-> << >>, body |-> body ]

\* logger.info / logger.warning / logger.error
Logged(level, msg) == [ level |-> level, msg |-> msg ]

\* the import of the PDF library, lines 17-30: what it logs
import_log(reader) ==
    CASE reader = "pypdf" ->
             << Logged("info", << "Successfully imported pypdf" >>) >>
      [] reader = "PyPDF2" ->
             << Logged("warning", << "Failed to import pypdf, trying PyPDF2" >>),
                Logged("info", << "Successfully imported PyPDF2" >>) >>
      [] OTHER ->
             << Logged("warning", << "Failed to import pypdf, trying PyPDF2" >>),
                Logged("error", << "Failed to import PDF libraries: ", "e" >>) >>

\* the import of the PDF library, line 29: what it shows above the form
import_notices(reader) ==
    IF reader = None
    THEN << Notice("error",
              << "PDF processing libraries not available. Please contact support." >>) >>
    ELSE << >>

(***************************************************************************)
(* extract_pdf_content, lines 44-66.                                       *)
(*                                                                         *)
(* doc is the reference document as the file system and the PDF library    *)
(* present it: status "missing" (os.path.exists is false), "open_error"    *)
(* (open or the reader's constructor throws), "read_error" (reader.pages   *)
(* or page.extract_text throws) or "ok" with the pages' texts.             *)
(***************************************************************************)
Extraction(status, raised, ret, ui, logs) ==
    [ called |-> TRUE, status |-> status, raised |-> raised, ret |-> ret,
      ui |-> ui, logs |-> logs ]

\* extract_pdf_content was not called
NoExtraction ==
    [ called |-> FALSE, status |-> None, raised |-> FALSE, ret |-> NoneText,
      ui |-> << >>, logs |-> << >> ]

\* " ".join(text) over the pages whose text is not empty, lines 58-63
page_texts(pages) == join(<< " " >>, SelectSeq(pages, LAMBDA p : p # << >>))

StartLog(pdf_path) ==
    Logged("info", << "Starting PDF extraction from: " >> \o pdf_path)

\* without the try/except of lines 51 and 64: the document's error escapes
extract_pdf_content_unguarded(pdf_path, reader, doc) ==
    IF reader = None
    THEN Extraction("no_backend", FALSE, NoneText,
             << Notice("error", << "PDF processing is not available" >>) >>,
             << >>)
    ELSE IF doc.status = "missing"
    THEN Extraction("missing", FALSE, NoneText, << >>,
             << StartLog(pdf_path),
                Logged("error", << "PDF file not found: " >> \o pdf_path) >>)
    ELSE IF doc.status \in { "open_error", "read_error" }
    THEN Extraction(doc.status, TRUE, NoneText, << >>,
             << StartLog(pdf_path) >>)
    ELSE Extraction("ok", FALSE, clean_extracted_text(page_texts(doc.pages)),
             << >>, << StartLog(pdf_path) >>)

\* with a notice to the user for a missing file as well
extract_pdf_content_notify_missing(pdf_path, reader, doc) ==
    IF reader = None
    THEN Extraction("no_backend", FALSE, NoneText,
             << Notice("error", << "PDF processing is not available" >>) >>,
             << >>)
    ELSE IF doc.status = "missing"
    THEN Extraction("missing", FALSE, NoneText,
             << Notice("error", << "PDF file not found" >>) >>,
             << StartLog(pdf_path),
                Logged("error", << "PDF file not found: " >> \o pdf_path) >>)
    ELSE IF doc.status \in { "open_error", "read_error" }
    THEN Extraction(doc.status, FALSE, NoneText, << >>,
             << StartLog(pdf_path),
                Logged("error", << "Error in PDF extraction: ", doc.status >>) >>)
    ELSE Extraction("ok", FALSE, clean_extracted_text(page_texts(doc.pages)),
             << >>, << StartLog(pdf_path) >>)

extract_pdf_content(pdf_path, reader, doc) ==
    IF reader = None
    THEN \* lines 46-48
         Extraction("no_backend", FALSE, NoneText,
             << Notice("error", << "PDF processing is not available" >>) >>,
             << >>)
    ELSE IF doc.status = "missing"
    THEN \* lines 52-54
         Extraction("missing", FALSE, NoneText, << >>,
             << StartLog(pdf_path),
                Logged("error", << "PDF file not found: " >> \o pdf_path) >>)
    ELSE IF doc.status \in { "open_error", "read_error" }
    THEN \* lines 64-66
         Extraction(doc.status, FALSE, NoneText, << >>,
             << StartLog(pdf_path),
                Logged("error", << "Error in PDF extraction: ", doc.status >>) >>)
    ELSE \* lines 56-63
         Extraction("ok", FALSE, clean_extracted_text(page_texts(doc.pages)),
             << >>, << StartLog(pdf_path) >>)

(***************************************************************************)
(* get_response, lines 105-208.                                            *)
(***************************************************************************)
\* lines 110-114, the extractor's part: called only for a mapped grade
load_reference(g, reader, doc) ==
    IF get_reference_file(g) \notin { None, "" }
    THEN extract_pdf_content(
             << "reference_materials/", get_reference_file(g) >>, reader, doc)
    ELSE NoExtraction

\* extract_pdf_content(pdf_path) or "", line 114, and the "" of line 111
reference_text_of(ex) ==
    IF ex.called /\ ex.ret \notin { NoneText, << >> } THEN ex.ret ELSE << >>

\* the literal text of the f-string between two interpolations
T_CONTEXT   == "# CONTEXT # ... mathematics assessment items for "
T_RULES     == ". # Content Hierarchy ... # REFERENCE FORMAT # ... official "
T_REFERENCE == " assessment for content reference:"
T_CONTENT   == "# CONTENT TO ADDRESS # ... ***Learning Goals: "
T_STANDARDS == "***Standards: "
T_LESSONS   == "***Lesson Content: "
T_NARRATIVE == "***Section Narrative: "
T_EXAMPLE   == "Important: ... 3. Example Question Format ..."

\* leaves the reference section out when there is no reference text
user_content_omit_empty_reference(g, ref, goals, stds, lsns, narrative) ==
    IF ref = << >>
    THEN << T_CONTEXT, g, T_CONTENT, goals, T_STANDARDS, stds,
            T_LESSONS, lsns, T_NARRATIVE, narrative, T_EXAMPLE >>
    ELSE << T_CONTEXT, g, T_RULES, g, T_REFERENCE, ref,
            T_CONTENT, goals, T_STANDARDS, stds, T_LESSONS, lsns,
            T_NARRATIVE, narrative, T_EXAMPLE >>

\* the f-string of lines 117-196: literal text and interpolated values
user_content(g, ref, goals, stds, lsns, narrative) ==
    << T_CONTEXT, g, T_RULES, g, T_REFERENCE, ref,
       T_CONTENT, goals, T_STANDARDS, stds, T_LESSONS, lsns,
       T_NARRATIVE, narrative, T_EXAMPLE >>

Answer(calls, ok, txt, msg) ==
    [ calls |-> calls, ok |-> ok, text |-> txt, msg |-> msg ]

\* a second attempt after a failed one
messages_create_retry(key, outcome) ==
    IF key = None
    THEN Answer(2, FALSE, << >>, "Could not resolve authentication method")
    ELSE Answer(IF outcome.ok THEN 1 ELSE 2, outcome.ok, outcome.text,
                outcome.msg)

\* client.messages.create(...) and response.content[0].text, lines 107 and
\* 198-208: one call; without a credential the client refuses the request
messages_create(key, outcome) ==
    IF key = None
    THEN Answer(1, FALSE, << >>, "Could not resolve authentication method")
    ELSE Answer(1, outcome.ok, outcome.text, outcome.msg)

\* the whole of get_response: what it did and what it returned or raised
get_response(g, narrative, goals, stds, lsns, key, reader, doc, outcome) ==
    LET ex  == load_reference(g, reader, doc)
        ref == reference_text_of(ex)
        ans == messages_create(key, outcome)
    IN  IF ex.raised
        THEN [ extraction |-> ex, reference_text |-> << >>, prompt |-> << >>,
               gatewayCalls |-> 0, raised |-> TRUE, error |-> ex.status,
               ret |-> << >> ]
        ELSE [ extraction |-> ex, reference_text |-> ref,
               prompt |-> user_content(g, ref, goals, stds, lsns, narrative),
               gatewayCalls |-> ans.calls, raised |-> ~ans.ok,
               error |-> ans.msg, ret |-> ans.text ]

(***************************************************************************)
(* The form and the "Generate Assessment" handler, lines 218-261.          *)
(***************************************************************************)
\* the options of st.selectbox, lines 219-221
GradeLevels ==
    { "Kindergarten", "Grade 1", "Grade 2", "Grade 3", "Grade 4", "Grade 5",
      "Grade 6", "Grade 7", "Grade 8", "Algebra 1", "Algebra 2", "Geometry" }

\* guards only the first two fields
all_fields_first_two(g, stds, lsns, content) ==
    /\ g # ""
    /\ stds # ""

\* all([grade, standards, lessons, section_content]), line 241
all_fields(g, stds, lsns, content) ==
    /\ g # ""
    /\ stds # ""
    /\ lsns # ""
    /\ content # ""

Args(g, narrative, goals, stds, lsns) ==
    [ grade |-> g, narrative |-> narrative, goals |-> goals,
      standards |-> stds, lessons |-> lsns ]

\* get_response was not called
NoArgs == Args(None, None, None, None, None)

\* the completion service was not asked
NoCompletion == [ ok |-> FALSE, text |-> << >>, msg |-> None ]

\* lines 243-258: what the handler shows for the result r of get_response
handler_output(r) ==
    r.extraction.ui \o
    ( IF r.raised
      THEN << Notice("error", << "An error occurred: ", r.error >>) >>
      ELSE << Notice("success", << "Assessment Generated Successfully!" >>),
              Shown("markdown", format_response(r.ret)),
              Shown("text_area", r.ret) >> )

\* lines 243-259: what the handler logs for the result r of get_response
handler_log(r) ==
    r.extraction.logs \o
    ( IF r.raised
      THEN << Logged("error", << "Error generating assessment: ", r.error >>) >>
      ELSE << >> )

(***************************************************************************)
(* Inputs.                                                                 *)
(***************************************************************************)
\* what a text area can hold: nothing or some text
FieldValues == { "", "text" }

\* the outcomes of the two imports and of os.getenv, lines 17-34
Readers == { "pypdf", "PyPDF2", None }

Keys == { "sk-key", None }

\* the text of one page: none, plain, or with a blank line inside
PageTexts == { << >>, << "a", NL, NL, "b", " " >> }

\* a reference document as extract_pdf_content finds it
Documents ==
    { [ status |-> st, pages |-> << >> ] :
          st \in { "missing", "open_error", "read_error" } }
    \cup { [ status |-> "ok", pages |-> pg ] : pg \in SeqsUpTo(PageTexts, MaxPages) }

\* "Question 1: a\n\nQuestion 2: b"
Scenario3 ==
    Question \o << " ", "1", ":", " ", "a", NL, NL >> \o
    Question \o << " ", "2", ":", " ", "b" >>

\* what the completion service can answer: a completion or a failure
Outcomes ==
    { [ ok |-> TRUE, text |-> t, msg |-> None ] :
          t \in { Scenario3, << "S", "o", "r", "r", "y" >> } }
    \cup { [ ok |-> FALSE, text |-> << >>, msg |-> m ] :
          m \in { "rate_limit_error", "list index out of range" } }

\* a label outside the closed set, and the empty label
GradeInputs == GradeLevels \cup { "Grade 9", "" }

\* the pieces completion texts are put together from
Pieces ==
    { Question, << "Q", "u", "e", "s", "t" >>, << "i", "o", "n" >>,
      << NL >>, << "x" >>, BR }

RECURSIVE PieceTexts(_)
\* the texts made of at most n pieces
PieceTexts(n) ==
    IF n = 0
    THEN { << >> }
    ELSE PieceTexts(n - 1)
         \cup { p \o t : p \in Pieces, t \in PieceTexts(n - 1) }

Completions == PieceTexts(MaxPieces) \cup { Scenario3 }

RawAlphabet == { "a", " ", NL }

(***************************************************************************)
(* The state after the script has loaded and before any widget is used.    *)
(***************************************************************************)
\* a script run in which the button was not pressed, lines 211-240
NoRun(reader) ==
    /\ screen' = << >>
    /\ log' = import_log(reader)
    /\ getResponseCalls' = 0
    /\ gatewayCalls' = 0
    /\ passed' = NoArgs
    /\ extraction' = NoExtraction
    /\ reference_text' = << >>
    /\ prompt' = << >>
    /\ completion' = NoCompletion

InitRun ==
    /\ screen = << >>
    /\ log = import_log(PDF_READER_CLASS)
    /\ getResponseCalls = 0
    /\ gatewayCalls = 0
    /\ passed = NoArgs
    /\ extraction = NoExtraction
    /\ reference_text = << >>
    /\ prompt = << >>
    /\ completion = NoCompletion

InitForm ==
    /\ grade = "Kindergarten"
    /\ standards = ""
    /\ lessons = ""
    /\ section_content = ""

InitPure ==
    /\ text = << >>
    /\ formatted_questions = << >>
    /\ formatted = Pending
    /\ raw = << >>
    /\ cleaned = Pending
    /\ resolved = [ g \in GradeInputs |-> { } ]

(***************************************************************************)
(* Spec: the application.  Streamlit runs the script again on every        *)
(* widget change and on every press of the button.                         *)
(***************************************************************************)
Init ==
    /\ PDF_READER_CLASS \in Readers
    /\ api_key \in Keys
    /\ InitForm
    /\ InitRun
    /\ InitPure

pureVars == << text, formatted_questions, formatted, raw, cleaned, resolved >>

SelectGrade(g) ==
    /\ g # grade
    /\ grade' = g
    /\ NoRun(PDF_READER_CLASS)
    /\ UNCHANGED << PDF_READER_CLASS, api_key, standards, lessons,
                    section_content, pureVars >>

EditStandards(v) ==
    /\ v # standards
    /\ standards' = v
    /\ NoRun(PDF_READER_CLASS)
    /\ UNCHANGED << PDF_READER_CLASS, api_key, grade, lessons,
                    section_content, pureVars >>

EditLessons(v) ==
    /\ v # lessons
    /\ lessons' = v
    /\ NoRun(PDF_READER_CLASS)
    /\ UNCHANGED << PDF_READER_CLASS, api_key, grade, standards,
                    section_content, pureVars >>

EditSectionContent(v) ==
    /\ v # section_content
    /\ section_content' = v
    /\ NoRun(PDF_READER_CLASS)
    /\ UNCHANGED << PDF_READER_CLASS, api_key, grade, standards, lessons,
                    pureVars >>

\* what a call of get_response leaves behind
Record(r, outcome, key) ==
    /\ getResponseCalls' = 1
    /\ gatewayCalls' = r.gatewayCalls
    /\ extraction' = r.extraction
    /\ reference_text' = r.reference_text
    /\ prompt' = r.prompt
    /\ completion' =
           IF r.gatewayCalls = 0
           THEN NoCompletion
           ELSE [ ok |-> ~r.raised, text |-> r.ret,
                  msg |-> IF r.raised THEN r.error ELSE None ]

\* the button is pressed with every field filled in, lines 240-259
GenerateAssessment(doc, outcome) ==
    /\ all_fields(grade, standards, lessons, section_content)
    /\ LET r == get_response(grade, section_content, lessons, standards,
                             lessons, api_key, PDF_READER_CLASS, doc, outcome)
       IN  /\ passed' = Args(grade, section_content, lessons, standards, lessons)
           /\ Record(r, outcome, api_key)
           /\ screen' = handler_output(r)
           /\ log' = import_log(PDF_READER_CLASS) \o handler_log(r)
    /\ UNCHANGED << PDF_READER_CLASS, api_key, grade, standards, lessons,
                    section_content, pureVars >>

\* the button is pressed with a field left empty, lines 240-241 and 260-261
GenerateRefused ==
    /\ ~all_fields(grade, standards, lessons, section_content)
    /\ screen' =
           << Notice("warning",
                << "Please fill in all fields to generate the assessment." >>) >>
    /\ log' = import_log(PDF_READER_CLASS)
    /\ getResponseCalls' = 0
    /\ gatewayCalls' = 0
    /\ passed' = NoArgs
    /\ extraction' = NoExtraction
    /\ reference_text' = << >>
    /\ prompt' = << >>
    /\ completion' = NoCompletion
    /\ UNCHANGED << PDF_READER_CLASS, api_key, grade, standards, lessons,
                    section_content, pureVars >>

Next ==
    \/ \E g \in GradeLevels : SelectGrade(g)
    \/ \E v \in FieldValues : EditStandards(v)
    \/ \E v \in FieldValues : EditLessons(v)
    \/ \E v \in FieldValues : EditSectionContent(v)
    \/ \E doc \in Documents, outcome \in Outcomes : GenerateAssessment(doc, outcome)
    \/ GenerateRefused

Spec == Init /\ [][Next]_vars

(***************************************************************************)
(* SpecCore: get_response called directly, with any five arguments.        *)
(***************************************************************************)
InitCore ==
    /\ PDF_READER_CLASS \in Readers
    /\ api_key \in Keys
    /\ InitForm
    /\ InitRun
    /\ InitPure

CallGetResponse(g, narrative, goals, stds, lsns, doc, outcome) ==
    /\ LET r == get_response(g, narrative, goals, stds, lsns, api_key,
                             PDF_READER_CLASS, doc, outcome)
       IN  /\ passed' = Args(g, narrative, goals, stds, lsns)
           /\ Record(r, outcome, api_key)
           /\ screen' = r.extraction.ui
           /\ log' = import_log(PDF_READER_CLASS) \o r.extraction.logs
    /\ UNCHANGED << PDF_READER_CLASS, api_key, grade, standards, lessons,
                    section_content, pureVars >>

\* one call in each behaviour
NextCore ==
    /\ getResponseCalls = 0
    /\ \E g \in GradeInputs, narrative \in FieldValues,
          goals \in FieldValues,
          stds \in FieldValues, lsns \in FieldValues,
          doc \in Documents, outcome \in Outcomes :
           CallGetResponse(g, narrative, goals, stds, lsns, doc, outcome)

SpecCore == InitCore /\ [][NextCore]_vars

(***************************************************************************)
(* SpecSegment: format_response applied to a completion text.              *)
(***************************************************************************)
InitIdleApp ==
    /\ PDF_READER_CLASS = "pypdf"
    /\ api_key = "sk-key"
    /\ InitForm
    /\ InitRun

InitSegment ==
    /\ InitIdleApp
    /\ text \in Completions
    /\ formatted_questions = << >>
    /\ formatted = Pending
    /\ raw = << >>
    /\ cleaned = Pending
    /\ resolved = [ g \in GradeInputs |-> { } ]

Segment ==
    /\ formatted = Pending
    /\ formatted_questions' = format_questions(text)
    /\ formatted' = format_response(text)
    /\ UNCHANGED << appVars, text, raw, cleaned, resolved >>

NextSegment == Segment

SpecSegment == InitSegment /\ [][NextSegment]_vars

(***************************************************************************)
(* SpecClean: clean_extracted_text applied to a raw text.                  *)
(***************************************************************************)
InitClean ==
    /\ InitIdleApp
    /\ raw \in SeqsUpTo(RawAlphabet, MaxRawLen)
    /\ cleaned = Pending
    /\ text = << >>
    /\ formatted_questions = << >>
    /\ formatted = Pending
    /\ resolved = [ g \in GradeInputs |-> { } ]

Clean ==
    /\ cleaned = Pending
    /\ cleaned' = clean_extracted_text(raw)
    /\ UNCHANGED << appVars, segmentVars, raw, resolved >>

NextClean == Clean

SpecClean == InitClean /\ [][NextClean]_vars

(***************************************************************************)
(* SpecResolve: get_reference_file called again and again.                 *)
(***************************************************************************)
InitResolve ==
    /\ InitIdleApp
    /\ InitPure

Resolve(g) ==
    /\ resolved' = [ resolved EXCEPT ![g] = @ \cup { get_reference_file(g) } ]
    /\ UNCHANGED << appVars, segmentVars, cleanVars >>

NextResolve == \E g \in GradeInputs : Resolve(g)

SpecResolve == InitResolve /\ [][NextResolve]_vars

(***************************************************************************)
(* Properties.                                                             *)
(***************************************************************************)
\* the positions at which p occurs in s
Occurrences(s, p) == { i \in 1..Len(s) : OccursAt(s, p, i) }

\* the k-th smallest element of a set of numbers
Kth(S, k) == CHOOSE x \in S : Cardinality({ y \in S : y < x }) = k - 1

\* the text between the i-th occurrence of "Question" and the next one
FragmentAfter(t, i) ==
    LET P == Occurrences(t, Question)
    IN  SubSeq(t, Kth(P, i) + Len(Question),
               IF i < Cardinality(P) THEN Kth(P, i + 1) - 1 ELSE Len(t))

\* t from its first occurrence of "Question" to its end
FromFirstQuestion(t) ==
    IF Occurrences(t, Question) = { }
    THEN << >>
    ELSE SubSeq(t, Kth(Occurrences(t, Question), 1), Len(t))

\* a block without the markup around it
BlockContent(b) == SubSeq(b, 2, Len(b) - 1)

\* the blocks' contents in output order, "<br>" turned back into newlines
Restored ==
    replace(join(<< >>, [ i \in DOMAIN formatted_questions |->
                            BlockContent(formatted_questions[i]) ]),
            BR, << NL >>)

\* the request's result or error is on the screen
ShowsRequestOutcome ==
    \E i \in DOMAIN screen :
        \/ screen[i].kind \in { "success", "markdown", "text_area" }
        \/ /\ screen[i].kind = "error"
           /\ screen[i].msg[1] = "An error occurred: "

\* C1: with the credential absent, no press of "Generate Assessment" calls
\* get_response or the completion gateway, and the screen shows no outcome
\* of a request.
C1_NoRequestWithoutCredential ==
    api_key = None =>
        /\ getResponseCalls = 0
        /\ gatewayCalls = 0
        /\ ~ShowsRequestOutcome

ExtractionFailed ==
    /\ extraction.called
    /\ extraction.status \in { "no_backend", "missing", "open_error", "read_error" }

\* C2: when the backend is absent, the file is missing or the document
\* throws, extract_pdf_content returns without raising and get_response
\* goes on with an empty reference text, in its local and in the prompt.
C2_ExtractionDegradesToEmpty ==
    ExtractionFailed =>
        /\ ~extraction.raised
        /\ getResponseCalls = 1
        /\ reference_text = << >>
        /\ Len(prompt) >= 6
        /\ prompt[6] = << >>

C2_Witness ==
    /\ ExtractionFailed
    /\ extraction.status = "read_error"
    /\ reference_text = << >>
    /\ gatewayCalls = 1

GatewayFailed == gatewayCalls >= 1 /\ ~completion.ok

\* C3: one press makes at most one gateway call; when that call fails the
\* user is shown an error carrying the failure's own message, no question
\* block and no success notice, and there was exactly that one call.
C3_SingleAttemptReported ==
    /\ gatewayCalls <= 1
    /\ GatewayFailed =>
           /\ gatewayCalls = 1
           /\ \E i \in DOMAIN screen :
                  screen[i] = Notice("error", << "An error occurred: ", completion.msg >>)
           /\ \A i \in DOMAIN screen :
                  screen[i].kind \notin { "success", "markdown", "text_area" }

C3_Witness ==
    /\ GatewayFailed
    /\ completion.msg = "rate_limit_error"
    /\ screen = << Notice("error", << "An error occurred: ", "rate_limit_error" >>) >>

\* the number of blocks in the returned string: one opening markup each
BlocksIn(s) == Cardinality({ i \in 1..Len(s) : s[i] = DivOpen[1] })

\* C4: format_response yields one block per occurrence of "Question" in the
\* text, each block's content starting with "Question" right after the
\* opening markup; no occurrence gives the empty result, and
\* "Question 1: a\n\nQuestion 2: b" gives 2 blocks.
C4_OneBlockPerQuestion ==
    formatted # Pending =>
        /\ Len(formatted_questions) = Cardinality(Occurrences(text, Question))
        /\ BlocksIn(formatted) = Cardinality(Occurrences(text, Question))
        /\ \A i \in DOMAIN formatted_questions :
               /\ formatted_questions[i][1] = DivOpen[1]
               /\ SubSeq(formatted_questions[i], 2, 1 + Len(Question)) = Question
        /\ (Occurrences(text, Question) = { } => formatted = << >>)
        /\ (text = Scenario3 => Len(formatted_questions) = 2)

C4_Witness ==
    /\ formatted # Pending
    /\ text = Scenario3
    /\ Len(formatted_questions) = 2
    /\ BlocksIn(formatted) = 2

\* two blank lines in a row: three newlines in a row
ConsecutiveBlankLines(s) == Occurrences(s, << NL, NL, NL >>) # { }

\* C5: the text clean_extracted_text returns has no consecutive blank
\* lines and neither starts nor ends with whitespace.
C5_NoConsecutiveBlankLines ==
    cleaned # Pending =>
        /\ ~ConsecutiveBlankLines(cleaned)
        /\ cleaned # << >> =>
               /\ cleaned[1] \notin Whitespace
               /\ cleaned[Len(cleaned)] \notin Whitespace

\* C6: every call of get_reference_file for a label gives the same result;
\* a grade of the closed set gets a document, Kindergarten and Grade 1 to 3
\* the same one, and a label outside the closed set gets None.
C6_TotalDeterministicLookup ==
    /\ \A g \in GradeInputs : Cardinality(resolved[g]) <= 1
    /\ \A g \in GradeLevels : None \notin resolved[g]
    /\ \A g \in GradeInputs \ GradeLevels : resolved[g] \subseteq { None }
    /\ \A g, h \in { "Kindergarten", "Grade 1", "Grade 2", "Grade 3" } :
           resolved[g] # { } /\ resolved[h] # { } => resolved[g] = resolved[h]

C6_Witness ==
    /\ \A g \in { "Kindergarten", "Grade 1", "Grade 2", "Grade 3" } :
           resolved[g] = { "grade_3.pdf" }
    /\ resolved["Grade 9"] = { None }
    /\ resolved["Grade 4"] = { "grade_4.pdf" }

C8_CoreOnlyWithAllInputs ==
    /\ getResponseCalls >= 1 =>
           /\ passed.grade \notin { "", None }
           /\ passed.narrative \notin { "", None }
           /\ passed.goals \notin { "", None }
           /\ passed.standards \notin { "", None }
           /\ passed.lessons \notin { "", None }
    /\ ("" \in { grade, standards, lessons, section_content }) =>
           /\ getResponseCalls = 0
           /\ gatewayCalls = 0
           /\ screen \in { << >>,
                  << Notice("warning",
                       << "Please fill in all fields to generate the assessment." >>) >> }

C8_Witness ==
    /\ getResponseCalls = 1
    /\ gatewayCalls = 1
    /\ passed = Args("Grade 4", "text", "text", "text", "text")

\* the prompt has the template's fifteen parts, its literal text in place
TemplateShape(p) ==
    /\ Len(p) = 15
    /\ << p[1], p[3], p[5], p[7], p[9], p[11], p[13], p[15] >>
           = << T_CONTEXT, T_RULES, T_REFERENCE, T_CONTENT, T_STANDARDS,
                T_LESSONS, T_NARRATIVE, T_EXAMPLE >>
    /\ << p[2], p[4], p[8], p[10], p[12], p[14] >>
           = << passed.grade, passed.grade, passed.goals, passed.standards,
                passed.lessons, passed.narrative >>

\* C9: whether the grade has no mapping, extraction fails or extraction
\* succeeds, get_response composes the prompt in the same shape and makes
\* exactly one gateway call; the reference section is there and empty in
\* the first two cases and holds the extracted text in the third.
C9_ReferenceFailuresContained ==
    getResponseCalls = 1 =>
        /\ TemplateShape(prompt)
        /\ gatewayCalls = 1
        /\ (~extraction.called \/ extraction.ret = NoneText) => prompt[6] = << >>
        /\ (extraction.called /\ extraction.ret # NoneText) =>
               prompt[6] = extraction.ret

C9_Witness ==
    /\ getResponseCalls = 1
    /\ passed.grade = "Grade 9"
    /\ ~extraction.called
    /\ TemplateShape(prompt)
    /\ prompt[6] = << >>
    /\ gatewayCalls = 1

\* the i-th block holds "Question" and the i-th fragment, newlines as "<br>"
BlocksInOrder ==
    /\ Len(formatted_questions) = Cardinality(Occurrences(text, Question))
    /\ \A i \in DOMAIN formatted_questions :
           BlockContent(formatted_questions[i])
               = Question \o replace(FragmentAfter(text, i), << NL >>, BR)

\* C10 as stated: for every completion text the i-th block holds "Question"
\* and the i-th fragment with newlines as "<br>", and turning "<br>" back
\* into newlines in the concatenated contents gives the text from its first
\* "Question" to its end.
C10_RoundTripEveryText ==
    formatted # Pending =>
        /\ BlocksInOrder
        /\ Restored = FromFirstQuestion(text)

\* C10 as amended: the i-th block holds "Question" and the i-th fragment
\* with newlines as "<br>" for every text; the round trip gives the text
\* from its first "Question" on whenever that part of the text holds no
\* literal "<br>" of its own.
C10_RoundTripWithoutLiteralBr ==
    formatted # Pending =>
        /\ BlocksInOrder
        /\ Occurrences(FromFirstQuestion(text), BR) = { } =>
               Restored = FromFirstQuestion(text)

C10_Witness ==
    /\ formatted # Pending
    /\ text = Scenario3
    /\ Len(formatted_questions) = 2
    /\ Occurrences(formatted, BR) # { }
    /\ Restored = text

====
